---- MODULE Spec2Model ----
(***************************************************************************)
(* The dependency-ordered lifecycle registry of core (src/core/health.go): *)
(* Register, Initialize, Shutdown, RegisterShutdownHook and the helpers    *)
(* topologicalSort and initOne.                                            *)
(*                                                                         *)
(* Every exported operation takes registry.mu on entry and releases it by  *)
(* a deferred Unlock, so each operation is one atomic action here.  The    *)
(* Init, Shutdown and hook bodies of components are opaque: each           *)
(* invocation returns nil or an error, chosen by the environment.          *)
(***************************************************************************)
EXTENDS Integers, Sequences, FiniteSets, TLC

\* ------------------------------------------------------------------ bounds

\* every component name in use, listed in the lexicographic order of Go strings
NameSeq == <<"a", "b", "c", "cache", "config", "late", "logger", "mysql",
             "network_manager">>
\* the names of the components handed to Register by callers of the registry
Names == {"a", "b", "c"}
\* the functions handed to RegisterShutdownHook
HookFuncs == {"h1", "h2"}
\* longest Dependencies() list of a component handed to Register
MaxDeps == 1
\* longest Dependencies() list of a component given to topologicalSort alone
MaxSortDeps == 2
\* registry operations in one run
MaxOps == 5
\* longest shutdownHooks list
MaxHooks == 2

\* ------------------------------------------------------------------ values

RECURSIVE SeqsUpTo(_, _)
SeqsUpTo(S, n) ==
    IF n = 0 THEN {<<>>}
    ELSE LET shorter == SeqsUpTo(S, n - 1)
         IN shorter \cup {Append(s, x) : s \in shorter, x \in S}

Range(s) == {s[i] : i \in 1..Len(s)}

Reverse(s) == [i \in 1..Len(s) |-> s[Len(s) + 1 - i]]

\* the sequences that list every element of the set S once
Perms(S) == {s \in SeqsUpTo(S, Cardinality(S)) : Len(s) = Cardinality(S) /\ Range(s) = S}

IsPrefix(p, s) == Len(p) <= Len(s) /\ \A i \in 1..Len(p) : p[i] = s[i]

\* position of x in s (0 when absent)
IndexOf(s, x) == IF x \in Range(s) THEN CHOOSE i \in 1..Len(s) : s[i] = x ELSE 0

\* an error value: the text fmt.Errorf builds, kept as its parts.
\*   phase, name : the "<phase> <name>: " prefix a caller wrapped it with
\*   kind        : which error it is
\*   subject     : the name inside the innermost message, or the component or
\*                 hook whose own action returned the error
NoErr == [phase |-> "", name |-> "", kind |-> "nil", subject |-> ""]

\* HealthStatus
HealthUnknown == 0
HealthHealthy == 1
HealthDegraded == 2
HealthUnhealthy == 3

\* a component as the registry sees it: its Dependencies() list and whether
\* its type has a Shutdown method (the Shutdowner assertion succeeds)
Comp(deps, shutdowner) == [deps |-> deps, shutdowner |-> shutdowner]

VARIABLES
    components,     \* Registry.components: name -> component
    initialized,    \* Registry.initialized: the names mapped to true
    initOrder,      \* Registry.initOrder
    shutdownHooks,  \* Registry.shutdownHooks
    last,           \* what the latest operation did: its name, the error it
                    \* returned, the Init, Shutdown and hook bodies it invoked,
                    \* those that returned an error (bad), and r.initialized
                    \* as Initialize found it (before)
    succeeded,      \* names whose Init has returned nil at some time
    reinvoked,      \* names whose Init was invoked after it had returned nil
    hookLog,        \* the functions given to RegisterShutdownHook, in call order
    fresh,          \* the latest Initialize returned nil and no Register followed
    sorts,          \* results of the topologicalSort calls made on components
    nOps,           \* operations performed
    mu,             \* Registry.mu: the goroutine holding it, or "free"
    threads,        \* each goroutine's position in the registry call it is making
    lastLocked,     \* per name, the component of the Register call that took
                    \* registry.mu last
    nestedDone,     \* registry calls made from inside an Init body that got the lock
    checkers,       \* HealthRegistry.checkers: name -> checker
    now,            \* the clock read by time.Now()
    health,         \* the latest CheckHealth call: when it began, the operation
                    \* it came after, the checkers it polled and the map returned
    network,        \* package network: the NetworkManager instance (stopCh, wg),
                    \* its monitor goroutine and the goroutines calling it
    metrics,        \* package core: the Metrics value (counters, mu), the int64
                    \* cells allocated and the goroutines calling IncrCounter
    loggers         \* package core: the loggers map, loggersMu, the Logger
                    \* values allocated and the goroutines calling GetLogger

registryVars == <<components, initialized, initOrder, shutdownHooks>>

lockVars == <<mu, threads, lastLocked, nestedDone>>

healthVars == <<checkers, now, health>>

sideVars == <<network, metrics, loggers>>

vars == <<components, initialized, initOrder, shutdownHooks, last, succeeded,
          reinvoked, hookLog, fresh, sorts, nOps, mu, threads, lastLocked,
          nestedDone, checkers, now, health, network, metrics, loggers>>

Did(op, err, inits, shuts, hooks, bad, before) ==
    [op |-> op, err |-> err, inits |-> inits, shuts |-> shuts, hooks |-> hooks,
     bad |-> bad, before |-> before]

Quiet(op) == Did(op, NoErr, <<>>, <<>>, <<>>, {}, {})

\* ------------------------------------------------------------------ sort.Strings

Rank(n) == CHOOSE i \in 1..Len(NameSeq) : NameSeq[i] = n

StringLess(x, y) == Rank(x) < Rank(y)

RECURSIVE InsertSorted(_, _)
InsertSorted(x, s) ==
    IF s = <<>> THEN <<x>>
    ELSE IF StringLess(x, Head(s)) THEN <<x>> \o s
    ELSE <<Head(s)>> \o InsertSorted(x, Tail(s))

RECURSIVE SortStrings(_)
SortStrings(s) == IF s = <<>> THEN <<>> ELSE InsertSorted(Head(s), SortStrings(Tail(s)))

\* ------------------------------------------------------------------ topologicalSort

CycleErr(name) == [phase |-> "", name |-> "", kind |-> "cycle", subject |-> name]

\* the closure's variables: order, visited and visiting (the names mapped to true)
SortStart == [order |-> <<>>, visited |-> {}, visiting |-> {}, err |-> NoErr]

visitEnter(st, name) == [st EXCEPT !.visiting = @ \cup {name}]

\* visitLeave putting the name in front of the order instead of behind it
visitLeavePrepending(st, name) ==
    [st EXCEPT !.visiting = @ \ {name},
               !.visited = @ \cup {name},
               !.order = <<name>> \o @]

visitLeave(st, name) ==
    [st EXCEPT !.visiting = @ \ {name},
               !.visited = @ \cup {name},
               !.order = Append(@, name)]

RECURSIVE visit(_, _, _)
RECURSIVE visitDeps(_, _, _)
visit(comps, name, st) ==
    IF name \in st.visiting THEN [st EXCEPT !.err = CycleErr(name)]
    ELSE IF name \in st.visited THEN st
    ELSE LET entered == visitEnter(st, name)
             after == IF name \in DOMAIN comps
                      THEN visitDeps(comps, comps[name].deps, entered)
                      ELSE entered
         IN IF after.err # NoErr THEN after ELSE visitLeave(after, name)

visitDeps(comps, deps, st) ==
    IF deps = <<>> THEN st
    ELSE LET next == visit(comps, Head(deps), st)
         IN IF next.err # NoErr THEN next ELSE visitDeps(comps, Tail(deps), next)

\* sortedNames without the call of sort.Strings
sortedNamesUnsorted(iter) == iter

\* names collected by ranging over the map in the order iter, then sorted
sortedNames(iter) == SortStrings(iter)

RECURSIVE visitAll(_, _, _)
visitAll(comps, names, st) ==
    IF names = <<>> THEN st
    ELSE LET next == visit(comps, Head(names), st)
         IN IF next.err # NoErr THEN next ELSE visitAll(comps, Tail(names), next)

\* iter: the order in which Go's range walks r.components in this call
topologicalSort(comps, iter) ==
    LET st == visitAll(comps, sortedNames(iter), SortStart)
    IN IF st.err # NoErr
       THEN [order |-> <<>>, err |-> st.err]
       ELSE [order |-> st.order, err |-> NoErr]

\* ------------------------------------------------------------------ initOne

UnknownErr(name) == [phase |-> "", name |-> "", kind |-> "unknown", subject |-> name]

InitErr(name) == [phase |-> "", name |-> "", kind |-> "init", subject |-> name]

\* fmt.Errorf("<phase> %s: %w", name, err)
wrap(phase, name, err) == [err EXCEPT !.phase = phase, !.name = name]

\* the walk's state: r.initialized, the Init bodies invoked so far (inits),
\* those that returned an error (bad), the names whose Init has returned nil
\* (oks), those invoked again after that (again) and the error being returned
WalkStart(inited, oks, again) ==
    [initialized |-> inited, inits |-> <<>>, bad |-> {}, oks |-> oks,
     again |-> again, err |-> NoErr]

\* alreadyInitialized without the test of r.initialized[name]
alreadyInitializedUnchecked(st, name) == FALSE

alreadyInitialized(st, name) == name \in st.initialized

\* markInitialized for an initOne that starts the map afresh
markInitializedAlone(st, name) == [st EXCEPT !.initialized = {name}]

\* markInitialized without the assignment r.initialized[name] = true
markInitializedForgotten(st, name) == st

markInitialized(st, name) == [st EXCEPT !.initialized = @ \cup {name}]

\* init.Init(): the body runs and returns an error when name is in fails
invokeInit(st, name, fails) ==
    LET called == [st EXCEPT !.inits = Append(@, name),
                              !.again = IF name \in st.oks THEN @ \cup {name} ELSE @]
    IN IF name \in fails
       THEN [called EXCEPT !.err = InitErr(name), !.bad = @ \cup {name}]
       ELSE [called EXCEPT !.oks = @ \cup {name}]

RECURSIVE initOne(_, _, _, _)
RECURSIVE initDeps(_, _, _, _)
initOne(comps, name, fails, st) ==
    IF alreadyInitialized(st, name) THEN st
    ELSE IF name \notin DOMAIN comps THEN [st EXCEPT !.err = UnknownErr(name)]
    ELSE LET ensured == initDeps(comps, comps[name].deps, fails, st)
         IN IF ensured.err # NoErr THEN ensured
            ELSE LET ran == invokeInit(ensured, name, fails)
                 IN IF ran.err # NoErr THEN ran ELSE markInitialized(ran, name)

initDeps(comps, deps, fails, st) ==
    IF deps = <<>> THEN st
    ELSE IF Head(deps) \in st.initialized THEN initDeps(comps, Tail(deps), fails, st)
    ELSE LET next == initOne(comps, Head(deps), fails, st)
         IN IF next.err # NoErr THEN next ELSE initDeps(comps, Tail(deps), fails, next)

\* walkFailed for a loop that does not return on an error
walkFailedIgnored(st) == FALSE

walkFailed(st) == st.err # NoErr

\* the loop of Initialize over order
RECURSIVE initWalk(_, _, _, _)
initWalk(comps, order, fails, st) ==
    IF order = <<>> THEN st
    ELSE LET next == initOne(comps, Head(order), fails, st)
         IN IF walkFailed(next)
            THEN [next EXCEPT !.err = wrap("initializing", Head(order), next.err)]
            ELSE initWalk(comps, Tail(order), fails, next)

\* ------------------------------------------------------------------ Shutdown

ShutdownErr(name) == [phase |-> "", name |-> "", kind |-> "shutdown", subject |-> name]

HookErr(hook) == [phase |-> "", name |-> "", kind |-> "hook", subject |-> hook]

TeardownStart == [shuts |-> <<>>, hooks |-> <<>>, bad |-> {}, err |-> NoErr]

\* reverseWalk for a loop running from index 0 upwards
reverseWalkForward(order) == order

\* the names in the order the loop "for i := len(initOrder) - 1; i >= 0; i--" meets them
reverseWalk(order) == Reverse(order)

\* isShutdowner for a walk that passes over the components reported unhealthy
isShutdownerHealthy(comps, name) ==
    /\ name \in DOMAIN comps
    /\ comps[name].shutdowner
    /\ name \in DOMAIN health.results => health.results[name].Status # HealthUnhealthy

\* isShutdowner for a walk that passes over the components not initialized
isShutdownerInitialized(comps, name) ==
    name \in DOMAIN comps /\ comps[name].shutdowner /\ name \in initialized

isShutdowner(comps, name) == name \in DOMAIN comps /\ comps[name].shutdowner

RECURSIVE shutdownComponents(_, _, _, _)
shutdownComponents(comps, names, sfails, st) ==
    IF names = <<>> THEN st
    ELSE IF ~isShutdowner(comps, Head(names))
         THEN shutdownComponents(comps, Tail(names), sfails, st)
    ELSE LET called == [st EXCEPT !.shuts = Append(@, Head(names))]
         IN IF Head(names) \in sfails
            THEN [called EXCEPT
                    !.err = wrap("shutting down", Head(names), ShutdownErr(Head(names))),
                    !.bad = @ \cup {Head(names)}]
            ELSE shutdownComponents(comps, Tail(names), sfails, called)

\* the loop over r.shutdownHooks from index i on; hfails: the indexes whose
\* hook returns an error
RECURSIVE runHooks(_, _, _, _)
runHooks(hooks, i, hfails, st) ==
    IF i > Len(hooks) THEN st
    ELSE LET called == [st EXCEPT !.hooks = Append(@, hooks[i])]
         IN IF i \in hfails
            THEN [called EXCEPT !.err = HookErr(hooks[i]), !.bad = @ \cup {hooks[i]}]
            ELSE runHooks(hooks, i + 1, hfails, called)

\* teardownFailed for a Shutdown that goes on to the hooks after an error
teardownFailedIgnored(st) == FALSE

teardownFailed(st) == st.err # NoErr

shutdownAll(comps, order, hooks, sfails, hfails) ==
    LET walked == shutdownComponents(comps, reverseWalk(order), sfails, TeardownStart)
    IN IF teardownFailed(walked) THEN walked ELSE runHooks(hooks, 1, hfails, walked)

\* appendHook putting the new hook in front
appendHookInFront(hooks, hook) == <<hook>> \o hooks

appendHook(hooks, hook) == Append(hooks, hook)

\* ------------------------------------------------------------------ the registry

DepLists == SeqsUpTo(Names, MaxDeps)

\* the goroutines calling into the registry
Threads == {"g1", "g2"}

\* no component
NoItem == [name |-> "", deps |-> <<>>, shutdowner |-> FALSE, init |-> "plain",
           fallible |-> FALSE]

\* a goroutine that is in no registry call, having made calls of them.
\*   pc     : "idle", "lock" (in registry.mu.Lock()), "body" (holding the
\*            lock), "walk" (in the loop of Initialize), "init" (in the Init
\*            body of cur), "resume" (in that body, its registry call returned)
\*   op     : the registry function it is in, the innermost one
\*   nested : op was called from the Init body of cur
\*   item   : the argument of Register
\*   rest   : the part of order the loop of Initialize has not passed
\*   err    : what its latest Initialize returned
IdleAfter(calls, err) ==
    [pc |-> "idle", calls |-> calls, op |-> "", nested |-> FALSE, item |-> NoItem,
     rest |-> <<>>, cur |-> "", err |-> err]

Idle == IdleAfter(0, NoErr)

\* registry.mu unlocked, no goroutine in a call
LocksIdle ==
    /\ mu = "free"
    /\ threads = [t \in Threads |-> Idle]
    /\ lastLocked = <<>>
    /\ nestedDone = {}

\* healthRegistry as constructed: no checker, nothing polled yet
HealthIdle ==
    /\ checkers = <<>>
    /\ now = 0
    /\ health = [began |-> 0, after |-> "", polled |-> <<>>, results |-> <<>>]

\* no NetworkManager made yet: instance is nil
NetworkIdle ==
    network = [stopCh |-> "none", wg |-> 0, monitor |-> "none", tick |-> FALSE,
               checks |-> 0, stops |-> 0, stopper |-> "idle", reports |-> {},
               panicked |-> FALSE]

\* metrics as constructed: no counter, no goroutine in IncrCounter
MetricsIdle ==
    metrics = [counters |-> <<>>, cells |-> <<>>, writer |-> "", readers |-> {},
               callers |-> [t \in Threads |->
                               [pc |-> "idle", name |-> "", counter |-> 0, calls |-> 0]],
               done |-> <<>>,
               report |-> [taken |-> FALSE, quiet |-> FALSE, values |-> <<>>,
                           done |-> <<>>]]

\* loggers as constructed: no Logger, no goroutine in GetLogger
LoggersIdle ==
    loggers = [loggers |-> <<>>, made |-> 0, writer |-> "", readers |-> {},
               callers |-> [t \in Threads |-> [pc |-> "idle", name |-> "", calls |-> 0]],
               returned |-> {}, replaced |-> FALSE, rechecked |-> FALSE]

SideIdle == NetworkIdle /\ MetricsIdle /\ LoggersIdle

Init ==
    /\ components = <<>>
    /\ initialized = {}
    /\ initOrder = <<>>
    /\ shutdownHooks = <<>>
    /\ last = Quiet("none")
    /\ succeeded = {}
    /\ reinvoked = {}
    /\ hookLog = <<>>
    /\ fresh = FALSE
    /\ sorts = {}
    /\ nOps = 0
    /\ LocksIdle
    /\ HealthIdle
    /\ SideIdle

withComponent(comps, name, comp) ==
    [n \in DOMAIN comps \cup {name} |-> IF n = name THEN comp ELSE comps[n]]

\* Register(component) for a component that is an Initializer
Register(name, deps, shutdowner) ==
    /\ nOps < MaxOps
    /\ components' = withComponent(components, name, Comp(deps, shutdowner))
    /\ last' = Quiet("Register")
    /\ fresh' = FALSE
    /\ nOps' = nOps + 1
    /\ UNCHANGED <<initialized, initOrder, shutdownHooks, succeeded, reinvoked,
                   hookLog, sorts, lockVars, healthVars,
                   sideVars>>

\* Register(component) for a value that is no Initializer: the assertion fails
RegisterOther ==
    /\ nOps < MaxOps
    /\ last' = Quiet("Register")
    /\ nOps' = nOps + 1
    /\ UNCHANGED <<components, initialized, initOrder, shutdownHooks, succeeded,
                   reinvoked, hookLog, fresh, sorts, lockVars, healthVars,
                   sideVars>>

\* sortError for an Initialize that drops the error of topologicalSort
sortErrorDropped(sorted) == NoErr

sortError(sorted) == sorted.err

\* orderAfterSortError for an Initialize that stores the order before it
\* tests the error
orderAfterSortErrorStored(old, sorted) == sorted.order

\* r.initOrder when the sort has failed: Initialize returns before it assigns
orderAfterSortError(old, sorted) == old

Initialize(iter, fails) ==
    /\ nOps < MaxOps
    /\ nOps' = nOps + 1
    /\ LET sorted == topologicalSort(components, iter)
       IN IF sortError(sorted) # NoErr
          THEN /\ last' = Did("Initialize", sortError(sorted), <<>>, <<>>, <<>>, {},
                             initialized)
               /\ fresh' = FALSE
               /\ initOrder' = orderAfterSortError(initOrder, sorted)
               /\ UNCHANGED <<initialized, succeeded, reinvoked>>
          ELSE LET walked == initWalk(components, sorted.order, fails,
                                      WalkStart(initialized, succeeded, reinvoked))
               IN /\ initOrder' = sorted.order
                  /\ initialized' = walked.initialized
                  /\ last' = Did("Initialize", walked.err, walked.inits, <<>>, <<>>,
                                walked.bad, initialized)
                  /\ succeeded' = walked.oks
                  /\ reinvoked' = walked.again
                  /\ fresh' = (walked.err = NoErr)
    /\ UNCHANGED <<components, shutdownHooks, hookLog, sorts, lockVars, healthVars,
                   sideVars>>

Shutdown(sfails, hfails) ==
    /\ nOps < MaxOps
    /\ nOps' = nOps + 1
    /\ LET done == shutdownAll(components, initOrder, shutdownHooks, sfails, hfails)
       IN last' = Did("Shutdown", done.err, <<>>, done.shuts, done.hooks, done.bad, {})
    /\ UNCHANGED <<components, initialized, initOrder, shutdownHooks, succeeded,
                   reinvoked, hookLog, fresh, sorts, lockVars, healthVars,
                   sideVars>>

RegisterShutdownHook(hook) ==
    /\ nOps < MaxOps
    /\ Len(shutdownHooks) < MaxHooks
    /\ nOps' = nOps + 1
    /\ shutdownHooks' = appendHook(shutdownHooks, hook)
    /\ hookLog' = Append(hookLog, hook)
    /\ last' = Quiet("RegisterShutdownHook")
    /\ UNCHANGED <<components, initialized, initOrder, succeeded, reinvoked, fresh,
                   sorts, lockVars, healthVars,
                   sideVars>>

Next ==
    \/ \E name \in Names, deps \in DepLists, shutdowner \in BOOLEAN :
          Register(name, deps, shutdowner)
    \/ RegisterOther
    \/ \E iter \in Perms(DOMAIN components), fails \in SUBSET (DOMAIN components) :
          Initialize(iter, fails)
    \/ \E sfails \in SUBSET Range(initOrder), hfails \in SUBSET (1..Len(shutdownHooks)) :
          Shutdown(sfails, hfails)
    \/ \E hook \in HookFuncs : RegisterShutdownHook(hook)

Spec == Init /\ [][Next]_vars

\* ------------------------------------------------------------------ topologicalSort alone

SortDepLists == SeqsUpTo(Names, MaxSortDeps)

\* every registry content: any set of names, each with any dependency list
SortInputs ==
    UNION {[S -> {Comp(deps, TRUE) : deps \in SortDepLists}] : S \in SUBSET Names}

InitSort ==
    /\ components \in SortInputs
    /\ initialized = {}
    /\ initOrder = <<>>
    /\ shutdownHooks = <<>>
    /\ last = Quiet("none")
    /\ succeeded = {}
    /\ reinvoked = {}
    /\ hookLog = <<>>
    /\ fresh = FALSE
    /\ sorts = {}
    /\ nOps = 0
    /\ LocksIdle
    /\ HealthIdle
    /\ SideIdle

\* one call r.topologicalSort(), the map being ranged over in the order iter
SortOnce(iter) ==
    /\ sorts' = sorts \cup {topologicalSort(components, iter)}
    /\ UNCHANGED <<components, initialized, initOrder, shutdownHooks, last, succeeded,
                   reinvoked, hookLog, fresh, nOps, lockVars, healthVars,
                   sideVars>>

NextSort == \E iter \in Perms(DOMAIN components) : SortOnce(iter)

SpecSort == InitSort /\ [][NextSort]_vars

\* ------------------------------------------------------------------ the health aggregator

\* latest reading of the clock
MaxTime == 1

\* the names checkers are registered under
CheckerNames == {"a", "b"}

\* the checkers, each given by what its HealthCheck body returns: a status and
\* whether the error is non-nil
Checkers ==
    {[status |-> HealthHealthy, error |-> FALSE],
     [status |-> HealthUnhealthy, error |-> TRUE]}

HealthResult(status, error, time) == [Status |-> status, Error |-> error, Time |-> time]

\* pollChecker for a CheckHealth that keeps the result it had for the name
pollCheckerCached(name, checker, clock) ==
    IF name \in DOMAIN health.results
    THEN health.results[name]
    ELSE HealthResult(checker.status, checker.error, clock)

\* one pass of the loop: checker.HealthCheck(ctx), then time.Now()
pollChecker(name, checker, clock) == HealthResult(checker.status, checker.error, clock)

RegisterHealthCheck(name, checker) ==
    /\ checkers' = [n \in DOMAIN checkers \cup {name} |->
                        IF n = name THEN checker ELSE checkers[n]]
    /\ UNCHANGED <<registryVars, last, succeeded, reinvoked, hookLog, fresh, sorts,
                   nOps, lockVars, now, health,
                   sideVars>>

\* stamps: the clock when each checker has returned; later: the clock when
\* CheckHealth returns
CheckHealth(stamps, later) ==
    /\ health' = [began |-> now,
                  after |-> last.op,
                  polled |-> checkers,
                  results |-> [n \in DOMAIN checkers |->
                                  pollChecker(n, checkers[n], stamps[n])]]
    /\ now' = later
    /\ UNCHANGED <<registryVars, last, succeeded, reinvoked, hookLog, fresh, sorts,
                   nOps, lockVars, checkers,
                   sideVars>>

\* time passes
Tick ==
    /\ now < MaxTime
    /\ now' = now + 1
    /\ UNCHANGED <<registryVars, last, succeeded, reinvoked, hookLog, fresh, sorts,
                   nOps, lockVars, checkers, health,
                   sideVars>>

\* the health calls, with the lifecycle of one component "a" going on around them
NextHealth ==
    \/ \E name \in CheckerNames, checker \in Checkers : RegisterHealthCheck(name, checker)
    \/ \E later \in now..MaxTime :
          \E stamps \in [DOMAIN checkers -> now..later] : CheckHealth(stamps, later)
    \/ Tick
    \/ Register("a", <<>>, TRUE)
    \/ \E fails \in SUBSET (DOMAIN components) : Initialize(<<"a">>, fails)
    \/ \E sfails \in SUBSET Range(initOrder) : Shutdown(sfails, {})

SpecHealth == Init /\ [][NextHealth]_vars

\* ------------------------------------------------------------------ registry.mu

\* registry calls one goroutine makes
MaxCalls == 2

\* the components of this repository: what Init calls back in package core
\* ("GetComponent" locks registry.mu; RegisterHealthCheck and GetLogger lock
\* mutexes of their own) and whether Init can return an error
configComponent ==
    [name |-> "config", deps |-> <<>>, shutdowner |-> TRUE, init |-> "plain",
     fallible |-> TRUE]

loggerComponent ==
    [name |-> "logger", deps |-> <<"config">>, shutdowner |-> TRUE,
     init |-> "GetComponent", fallible |-> FALSE]

mysqlComponent ==
    [name |-> "mysql", deps |-> <<"config", "logger">>, shutdowner |-> TRUE,
     init |-> "RegisterHealthCheck", fallible |-> TRUE]

networkComponent ==
    [name |-> "network_manager", deps |-> <<"config", "logger", "mysql">>,
     shutdowner |-> TRUE, init |-> "RegisterHealthCheck", fallible |-> FALSE]

\* components a caller may add: a logger whose Init calls nothing, a cache
\* whose Init registers a further component, one whose Init calls nothing
stubLogger ==
    [name |-> "logger", deps |-> <<"config">>, shutdowner |-> FALSE,
     init |-> "plain", fallible |-> FALSE]

cacheComponent ==
    [name |-> "cache", deps |-> <<>>, shutdowner |-> TRUE, init |-> "Register",
     fallible |-> FALSE]

plainCache ==
    [name |-> "cache", deps |-> <<>>, shutdowner |-> FALSE, init |-> "plain",
     fallible |-> TRUE]

\* the component the Init of cacheComponent hands to Register
lateComponent ==
    [name |-> "late", deps |-> <<>>, shutdowner |-> FALSE, init |-> "plain",
     fallible |-> FALSE]

RuntimeItems == {stubLogger, cacheComponent, plainCache}

\* the registry after the init() functions of the packages linked in: package
\* core registers logger; config, mysql and network register themselves
PackageRegistries ==
    {[n \in {"logger"} \cup S |->
         CASE n = "config" -> configComponent
           [] n = "logger" -> loggerComponent
           [] n = "mysql" -> mysqlComponent
           [] OTHER -> networkComponent] :
     S \in SUBSET {"config", "mysql", "network_manager"}}

InitLock ==
    /\ components \in PackageRegistries
    /\ initialized = {}
    /\ initOrder = <<>>
    /\ shutdownHooks = <<>>
    /\ last = Quiet("none")
    /\ succeeded = {}
    /\ reinvoked = {}
    /\ hookLog = <<>>
    /\ fresh = FALSE
    /\ sorts = {}
    /\ nOps = 0
    /\ mu = "free"
    /\ threads = [t \in Threads |-> Idle]
    /\ lastLocked = components
    /\ nestedDone = {}
    /\ HealthIdle
    /\ SideIdle

\* canLock for a Lock that never waits
canLockNoMutex(m, t) == TRUE

\* canLock for a mutex that its holder may lock again
canLockReentrant(m, t) == m \in {"free", t}

\* sync.Mutex: Lock returns only when the mutex is unlocked, whoever holds it
canLock(m, t) == m = "free"

\* a goroutine calls Register(item)
CallRegister(t, item) ==
    /\ threads[t].pc = "idle"
    /\ threads[t].calls < MaxCalls
    /\ threads' = [threads EXCEPT ![t] =
                      [@ EXCEPT !.pc = "lock", !.op = "Register", !.item = item,
                                !.calls = @ + 1]]
    /\ UNCHANGED <<registryVars, last, succeeded, reinvoked, hookLog, fresh, sorts,
                   nOps, mu, lastLocked, nestedDone, healthVars,
                   sideVars>>

\* a goroutine calls GetComponent
CallGetComponent(t) ==
    /\ threads[t].pc = "idle"
    /\ threads[t].calls < MaxCalls
    /\ threads' = [threads EXCEPT ![t] =
                      [@ EXCEPT !.pc = "lock", !.op = "GetComponent", !.calls = @ + 1]]
    /\ UNCHANGED <<registryVars, last, succeeded, reinvoked, hookLog, fresh, sorts,
                   nOps, mu, lastLocked, nestedDone, healthVars,
                   sideVars>>

\* a goroutine calls Initialize
CallInitialize(t) ==
    /\ threads[t].pc = "idle"
    /\ threads[t].calls < MaxCalls
    /\ threads' = [threads EXCEPT ![t] =
                      [@ EXCEPT !.pc = "lock", !.op = "Initialize", !.calls = @ + 1,
                                !.err = NoErr]]
    /\ UNCHANGED <<registryVars, last, succeeded, reinvoked, hookLog, fresh, sorts,
                   nOps, mu, lastLocked, nestedDone, healthVars,
                   sideVars>>

\* registry.mu.Lock() returns in goroutine t
Lock(t) ==
    /\ threads[t].pc = "lock"
    /\ canLock(mu, t)
    /\ mu' = t
    /\ threads' = [threads EXCEPT ![t].pc = "body"]
    /\ lastLocked' = IF threads[t].op = "Register"
                      THEN withComponent(lastLocked, threads[t].item.name, threads[t].item)
                      ELSE lastLocked
    /\ nestedDone' = IF threads[t].nested
                      THEN nestedDone \cup {threads[t].cur}
                      ELSE nestedDone
    /\ UNCHANGED <<registryVars, last, succeeded, reinvoked, hookLog, fresh, sorts,
                   nOps, healthVars,
                   sideVars>>

\* the goroutine as its call of Register or GetComponent returns: back in the
\* Init body that made the call, or idle
returned(th) ==
    IF th.nested
    THEN [th EXCEPT !.pc = "resume", !.op = "Initialize", !.nested = FALSE,
                    !.item = NoItem]
    ELSE IdleAfter(th.calls, th.err)

\* the body of Register, and the deferred Unlock
RegisterBody(t) ==
    /\ threads[t].pc = "body"
    /\ threads[t].op = "Register"
    /\ components' = withComponent(components, threads[t].item.name, threads[t].item)
    /\ mu' = "free"
    /\ threads' = [threads EXCEPT ![t] = returned(@)]
    /\ UNCHANGED <<initialized, initOrder, shutdownHooks, last, succeeded, reinvoked,
                   hookLog, fresh, sorts, nOps, lastLocked, nestedDone, healthVars,
                   sideVars>>

\* the body of GetComponent, and the deferred Unlock
GetComponentBody(t) ==
    /\ threads[t].pc = "body"
    /\ threads[t].op = "GetComponent"
    /\ mu' = "free"
    /\ threads' = [threads EXCEPT ![t] = returned(@)]
    /\ UNCHANGED <<registryVars, last, succeeded, reinvoked, hookLog, fresh, sorts,
                   nOps, lastLocked, nestedDone, healthVars,
                   sideVars>>

\* Initialize up to its loop: the sort, its error returned, the order stored
InitializeSort(t, iter) ==
    /\ threads[t].pc = "body"
    /\ threads[t].op = "Initialize"
    /\ LET sorted == topologicalSort(components, iter)
       IN IF sortError(sorted) # NoErr
          THEN /\ mu' = "free"
               /\ threads' = [threads EXCEPT ![t] = IdleAfter(@.calls, sortError(sorted))]
               /\ UNCHANGED initOrder
          ELSE /\ initOrder' = sorted.order
               /\ threads' = [threads EXCEPT ![t] =
                                 [@ EXCEPT !.pc = "walk", !.rest = sorted.order]]
               /\ UNCHANGED mu
    /\ UNCHANGED <<components, initialized, shutdownHooks, last, succeeded, reinvoked,
                   hookLog, fresh, sorts, nOps, lastLocked, nestedDone, healthVars,
                   sideVars>>

\* where initOne(name) gets to before an Init body runs: it returns nil
\* ("done"), returns the unknown-component error for at, or invokes the Init of at
RECURSIVE nextInit(_, _, _)
RECURSIVE nextInitDeps(_, _, _, _)
nextInit(comps, name, inited) ==
    IF name \in inited THEN [kind |-> "done", at |-> name]
    ELSE IF name \notin DOMAIN comps THEN [kind |-> "unknown", at |-> name]
    ELSE nextInitDeps(comps, name, comps[name].deps, inited)

nextInitDeps(comps, name, deps, inited) ==
    IF deps = <<>> THEN [kind |-> "invoke", at |-> name]
    ELSE IF Head(deps) \in inited THEN nextInitDeps(comps, name, Tail(deps), inited)
    ELSE nextInit(comps, Head(deps), inited)

\* the loop of Initialize up to the next Init body, or to its return
InitializeStep(t) ==
    /\ threads[t].pc = "walk"
    /\ LET rest == threads[t].rest
           next == nextInit(components, Head(rest), initialized)
       IN IF rest = <<>>
          THEN /\ mu' = "free"
               /\ threads' = [threads EXCEPT ![t] = IdleAfter(@.calls, NoErr)]
          ELSE IF next.kind = "done"
          THEN /\ threads' = [threads EXCEPT ![t].rest = Tail(rest)]
               /\ UNCHANGED mu
          ELSE IF next.kind = "unknown"
          THEN /\ mu' = "free"
               /\ threads' = [threads EXCEPT ![t] =
                                 IdleAfter(@.calls, wrap("initializing", Head(rest),
                                                         UnknownErr(next.at)))]
          ELSE /\ threads' = [threads EXCEPT ![t] =
                                 [@ EXCEPT !.pc = "init", !.cur = next.at]]
               /\ UNCHANGED mu
    /\ UNCHANGED <<registryVars, last, succeeded, reinvoked, hookLog, fresh, sorts,
                   nOps, lastLocked, nestedDone, healthVars,
                   sideVars>>

\* the Init body of cur reaches its call of GetComponent or Register
InitCallsBack(t) ==
    /\ threads[t].pc = "init"
    /\ components[threads[t].cur].init \in {"GetComponent", "Register"}
    /\ threads' = [threads EXCEPT ![t] =
                      [@ EXCEPT !.pc = "lock",
                                !.op = components[threads[t].cur].init,
                                !.nested = TRUE,
                                !.item = IF components[threads[t].cur].init = "Register"
                                         THEN lateComponent ELSE NoItem]]
    /\ UNCHANGED <<registryVars, last, succeeded, reinvoked, hookLog, fresh, sorts,
                   nOps, mu, lastLocked, nestedDone, healthVars,
                   sideVars>>

\* network.New and Start run to the end: the instance with its channel open
\* and its monitor goroutine in the select
managerStarted ==
    [stopCh |-> "open", wg |-> 1, monitor |-> "select", tick |-> FALSE,
     checks |-> 0, stops |-> 0, stopper |-> "idle", reports |-> {},
     panicked |-> FALSE]

\* NetworkManager.Stop run to the end: close(n.stopCh), which panics on a
\* closed channel, then wg.Wait() until the monitor has returned
managerStopped(net) ==
    IF net.stopCh = "closed"
    THEN [net EXCEPT !.stops = @ + 1, !.panicked = TRUE]
    ELSE [net EXCEPT !.stops = @ + 1, !.stopCh = "closed", !.wg = 0,
                     !.monitor = "exited"]

\* a goroutine of a process that a panic has ended
Crashed == [Idle EXCEPT !.pc = "crashed"]

\* a goroutine calls Shutdown
CallShutdown(t) ==
    /\ threads[t].pc = "idle"
    /\ threads[t].calls < MaxCalls
    /\ threads' = [threads EXCEPT ![t] =
                      [@ EXCEPT !.pc = "lock", !.op = "Shutdown", !.calls = @ + 1,
                                !.err = NoErr]]
    /\ UNCHANGED <<registryVars, last, succeeded, reinvoked, hookLog, fresh, sorts,
                   nOps, mu, lastLocked, nestedDone, healthVars, sideVars>>

\* the body of Shutdown and the deferred Unlock; the Shutdown of
\* networkComponent calls Stop when instance is not nil
ShutdownBody(t, sfails) ==
    /\ threads[t].pc = "body"
    /\ threads[t].op = "Shutdown"
    /\ LET done == shutdownAll(components, initOrder, shutdownHooks, sfails, {})
           stops == /\ "network_manager" \in Range(done.shuts)
                    /\ network.stopCh # "none"
           net == IF stops THEN managerStopped(network) ELSE network
       IN /\ network' = net
          /\ IF net.panicked
             THEN /\ threads' = [u \in Threads |-> Crashed]
                  /\ UNCHANGED mu
             ELSE /\ threads' = [threads EXCEPT ![t] = IdleAfter(@.calls, done.err)]
                  /\ mu' = "free"
    /\ UNCHANGED <<registryVars, last, succeeded, reinvoked, hookLog, fresh, sorts,
                   nOps, lastLocked, nestedDone, healthVars, metrics, loggers>>

\* the Init body of cur returns: nil (ok), or an error and Initialize returns it
InitReturns(t, ok, checker) ==
    /\ \/ threads[t].pc = "resume"
       \/ /\ threads[t].pc = "init"
          /\ components[threads[t].cur].init \notin {"GetComponent", "Register"}
    /\ ok \/ components[threads[t].cur].fallible
    /\ IF ok
       THEN /\ initialized' = initialized \cup {threads[t].cur}
            /\ checkers' = IF components[threads[t].cur].init = "RegisterHealthCheck"
                            THEN withComponent(checkers, threads[t].cur, checker)
                            ELSE checkers
            /\ network' = IF threads[t].cur = "network_manager"
                           THEN managerStarted
                           ELSE network
            /\ threads' = [threads EXCEPT ![t] = [@ EXCEPT !.pc = "walk", !.cur = ""]]
            /\ UNCHANGED mu
       ELSE /\ mu' = "free"
            /\ threads' = [threads EXCEPT ![t] =
                              IdleAfter(@.calls, wrap("initializing", Head(@.rest),
                                                      InitErr(@.cur)))]
            /\ UNCHANGED <<initialized, checkers, network>>
    /\ UNCHANGED <<components, initOrder, shutdownHooks, last, succeeded, reinvoked,
                   hookLog, fresh, sorts, nOps, lastLocked, nestedDone, now, health,
                   metrics, loggers>>

NextLock ==
    \/ \E t \in Threads, item \in RuntimeItems : CallRegister(t, item)
    \/ \E t \in Threads : CallGetComponent(t)
    \/ \E t \in Threads : CallInitialize(t)
    \/ \E t \in Threads : Lock(t)
    \/ \E t \in Threads : RegisterBody(t)
    \/ \E t \in Threads : GetComponentBody(t)
    \/ \E t \in Threads, iter \in Perms(DOMAIN components) : InitializeSort(t, iter)
    \/ \E t \in Threads : InitializeStep(t)
    \/ \E t \in Threads : InitCallsBack(t)
    \/ \E t \in Threads, ok \in BOOLEAN, checker \in Checkers : InitReturns(t, ok, checker)
    \/ \E t \in Threads : CallShutdown(t)
    \/ \E t \in Threads, sfails \in SUBSET ({"mysql"} \cap Range(initOrder)) :
          ShutdownBody(t, sfails)

SpecLock == InitLock /\ [][NextLock]_vars

\* ------------------------------------------------------------------ the network manager

\* calls of checkNetwork that are counted (the monitor goes on making them)
MaxChecks == 3

\* calls of Stop
MaxStops == 2

\* everything but the NetworkManager
netFrame ==
    <<registryVars, last, succeeded, reinvoked, hookLog, fresh, sorts, nOps, lockVars,
      healthVars, metrics, loggers>>

\* New and Start: the channel made, wg.Add(1), the monitor goroutine spawned
Start ==
    /\ network.stopCh = "none"
    /\ network' = [network EXCEPT !.stopCh = "open", !.wg = 1, !.monitor = "spawned"]
    /\ UNCHANGED netFrame

\* monitor: the ticker made, the goroutine reaches its select
MonitorBegins ==
    /\ network.monitor = "spawned"
    /\ network' = [network EXCEPT !.monitor = "select"]
    /\ UNCHANGED netFrame

\* the ticker puts a tick in ticker.C
TickerFires ==
    /\ network.monitor \in {"select", "check"}
    /\ ~network.tick
    /\ network' = [network EXCEPT !.tick = TRUE]
    /\ UNCHANGED netFrame

\* select takes the case <-ticker.C: checkNetwork is called
MonitorTakesTick ==
    /\ network.monitor = "select"
    /\ network.tick
    /\ network' = [network EXCEPT !.tick = FALSE, !.monitor = "check",
                                  !.checks = IF @ < MaxChecks THEN @ + 1 ELSE @]
    /\ UNCHANGED netFrame

\* checkNetwork returns
CheckReturns ==
    /\ network.monitor = "check"
    /\ network' = [network EXCEPT !.monitor = "select"]
    /\ UNCHANGED netFrame

\* wgDone for a monitor that returns without wg.Done()
wgDoneForgotten(wg) == wg

\* defer n.wg.Done()
wgDone(wg) == wg - 1

\* select takes the case <-n.stopCh: monitor returns, the deferred
\* ticker.Stop() and wg.Done() run
MonitorTakesStop ==
    /\ network.monitor = "select"
    /\ network.stopCh = "closed"
    /\ network' = [network EXCEPT !.monitor = "exited", !.wg = wgDone(@),
                                  !.tick = FALSE]
    /\ UNCHANGED netFrame

\* Stop is called and does close(n.stopCh): a closed channel makes it panic
StopCloses ==
    /\ network.stopCh # "none"
    /\ network.stopper \in {"idle", "done"}
    /\ network.stops < MaxStops
    /\ ~network.panicked
    /\ network' = IF network.stopCh = "closed"
                   THEN [network EXCEPT !.stops = @ + 1, !.stopper = "panic",
                                        !.panicked = TRUE]
                   ELSE [network EXCEPT !.stops = @ + 1, !.stopper = "wait",
                                        !.stopCh = "closed"]
    /\ UNCHANGED netFrame

\* n.wg.Wait() returns, and Stop after it
StopReturns ==
    /\ network.stopper = "wait"
    /\ network.wg = 0
    /\ network' = [network EXCEPT !.stopper = "done"]
    /\ UNCHANGED netFrame

\* healthStatus for a HealthCheck that does not look at the channel
healthStatusAlways(stopCh) == HealthHealthy

\* the select of HealthCheck: a closed stopCh is ready, an open one is not
healthStatus(stopCh) == IF stopCh = "closed" THEN HealthUnhealthy ELSE HealthHealthy

\* HealthCheck is called; its report is kept with the state of the channel
HealthCheck ==
    /\ network.stopCh # "none"
    /\ ~network.panicked
    /\ network' = [network EXCEPT !.reports =
                       @ \cup {[closed |-> network.stopCh = "closed",
                                status |-> healthStatus(network.stopCh)]}]
    /\ UNCHANGED netFrame

NextNet ==
    \/ Start
    \/ MonitorBegins
    \/ TickerFires
    \/ MonitorTakesTick
    \/ CheckReturns
    \/ MonitorTakesStop
    \/ StopCloses
    \/ StopReturns
    \/ HealthCheck

SpecNet == Init /\ [][NextNet]_vars

\* every goroutine that can run does run, and a select with a ready case that
\* is entered again and again takes each ready case at some time
SpecNetFair ==
    /\ SpecNet
    /\ WF_vars(MonitorBegins)
    /\ WF_vars(CheckReturns)
    /\ SF_vars(MonitorTakesStop)
    /\ WF_vars(StopReturns)

\* ------------------------------------------------------------------ metrics

\* calls of IncrCounter one goroutine makes
MaxIncrs == 2

MetricNames == {"network.checks", "network.check.failed"}

\* everything but metrics
metricsFrame ==
    <<registryVars, last, succeeded, reinvoked, hookLog, fresh, sorts, nOps, lockVars,
      healthVars, network, loggers>>

\* metrics with the goroutine t changed: its position, and its variable counter
withCaller(m, t, pc, counter) ==
    [m EXCEPT !.callers[t].pc = pc, !.callers[t].counter = counter]

\* IncrCounter(name) is called, metrics.mu.RLock() returns
IncrRLock(t, name) ==
    /\ metrics.callers[t].pc = "idle"
    /\ metrics.callers[t].calls < MaxIncrs
    /\ metrics.writer = ""
    /\ metrics' = [metrics EXCEPT !.readers = @ \cup {t},
                                  !.callers[t] = [pc |-> "read", name |-> name,
                                                  counter |-> 0, calls |-> @.calls + 1]]
    /\ UNCHANGED metricsFrame

\* counter, ok := metrics.counters[name]; RUnlock. The cell 0 is the nil pointer
IncrRead(t) ==
    /\ metrics.callers[t].pc = "read"
    /\ LET name == metrics.callers[t].name
           ok == name \in DOMAIN metrics.counters
           m == [metrics EXCEPT !.readers = @ \ {t}]
       IN metrics' = IF ok
                     THEN withCaller(m, t, "add", metrics.counters[name])
                     ELSE withCaller(m, t, "lock", 0)
    /\ UNCHANGED metricsFrame

\* metrics.mu.Lock() returns
IncrLock(t) ==
    /\ metrics.callers[t].pc = "lock"
    /\ metrics.writer = ""
    /\ metrics.readers = {}
    /\ metrics' = [withCaller(metrics, t, "create", 0) EXCEPT !.writer = t]
    /\ UNCHANGED metricsFrame

\* counter = new(int64); metrics.counters[name] = counter; Unlock
IncrCreate(t) ==
    /\ metrics.callers[t].pc = "create"
    /\ LET name == metrics.callers[t].name
           cell == Len(metrics.cells) + 1
           m == [metrics EXCEPT
                   !.cells = Append(@, 0),
                   !.counters = [n \in DOMAIN @ \cup {name} |->
                                    IF n = name THEN cell ELSE @[n]],
                   !.writer = ""]
       IN metrics' = withCaller(m, t, "add", cell)
    /\ UNCHANGED metricsFrame

\* atomic.AddInt64(counter, 1), and IncrCounter returns
IncrAdd(t) ==
    /\ metrics.callers[t].pc = "add"
    /\ LET name == metrics.callers[t].name
           cell == metrics.callers[t].counter
           m == [metrics EXCEPT
                   !.cells[cell] = @ + 1,
                   !.done = [n \in DOMAIN @ \cup {name} |->
                                (IF n \in DOMAIN @ THEN @[n] ELSE 0)
                                + (IF n = name THEN 1 ELSE 0)]]
       IN metrics' = withCaller(m, t, "idle", 0)
    /\ UNCHANGED metricsFrame

\* the counters of the map GetMetrics returns: atomic.LoadInt64 of each
counterValues(m) == [n \in DOMAIN m.counters |-> m.cells[m.counters[n]]]

\* GetMetrics under the read lock; kept with the calls of IncrCounter that had
\* returned by then, and whether none was under way (quiet)
GetMetrics ==
    /\ metrics.writer = ""
    /\ metrics' = [metrics EXCEPT !.report =
                       [taken |-> TRUE,
                        quiet |-> \A t \in Threads : metrics.callers[t].pc = "idle",
                        values |-> counterValues(metrics),
                        done |-> metrics.done]]
    /\ UNCHANGED metricsFrame

NextMetrics ==
    \/ \E t \in Threads, name \in MetricNames : IncrRLock(t, name)
    \/ \E t \in Threads : IncrRead(t)
    \/ \E t \in Threads : IncrLock(t)
    \/ \E t \in Threads : IncrCreate(t)
    \/ \E t \in Threads : IncrAdd(t)
    \/ GetMetrics

SpecMetrics == Init /\ [][NextMetrics]_vars

\* ------------------------------------------------------------------ loggers

\* calls of GetLogger one goroutine makes
MaxGets == 2

LoggerNames == {"network", "mysql"}

\* everything but loggers
loggersFrame ==
    <<registryVars, last, succeeded, reinvoked, hookLog, fresh, sorts, nOps, lockVars,
      healthVars, network, metrics>>

\* GetLogger(name) is called, loggersMu.RLock() returns
GetLoggerRLock(t, name) ==
    /\ loggers.callers[t].pc = "idle"
    /\ loggers.callers[t].calls < MaxGets
    /\ loggers.writer = ""
    /\ loggers' = [loggers EXCEPT !.readers = @ \cup {t},
                                  !.callers[t] = [pc |-> "first", name |-> name,
                                                  calls |-> @.calls + 1]]
    /\ UNCHANGED loggersFrame

\* the lookup under the read lock: the Logger found is returned, and without
\* one the call goes on to the write lock; RUnlock either way
GetLoggerFirstCheck(t) ==
    /\ loggers.callers[t].pc = "first"
    /\ LET name == loggers.callers[t].name
       IN loggers' =
            IF name \in DOMAIN loggers.loggers
            THEN [loggers EXCEPT !.readers = @ \ {t},
                                 !.callers[t].pc = "idle",
                                 !.returned = @ \cup {<<name, loggers.loggers[name]>>}]
            ELSE [loggers EXCEPT !.readers = @ \ {t},
                                 !.callers[t].pc = "lock"]
    /\ UNCHANGED loggersFrame

\* loggersMu.Lock() returns
GetLoggerLock(t) ==
    /\ loggers.callers[t].pc = "lock"
    /\ loggers.writer = ""
    /\ loggers.readers = {}
    /\ loggers' = [loggers EXCEPT !.writer = t, !.callers[t].pc = "second"]
    /\ UNCHANGED loggersFrame

\* the lookup under the write lock, left out
foundUnderLockNever(map, name) == FALSE

\* if l, ok := loggers[name]; ok, under the write lock
foundUnderLock(map, name) == name \in DOMAIN map

\* the lookup under the write lock: the Logger found is returned, and without
\* one a Logger is made, stored and returned; the deferred Unlock either way.
\* A Logger is the number of its making; replaced records a store over an
\* entry, rechecked a Logger found by this lookup
GetLoggerSecondCheck(t) ==
    /\ loggers.callers[t].pc = "second"
    /\ LET name == loggers.callers[t].name
           l == loggers.made + 1
       IN loggers' =
            IF foundUnderLock(loggers.loggers, name)
            THEN [loggers EXCEPT !.writer = "",
                                 !.callers[t].pc = "idle",
                                 !.rechecked = TRUE,
                                 !.returned = @ \cup {<<name, loggers.loggers[name]>>}]
            ELSE [loggers EXCEPT !.writer = "",
                                 !.callers[t].pc = "idle",
                                 !.made = l,
                                 !.loggers = [n \in DOMAIN @ \cup {name} |->
                                                IF n = name THEN l ELSE @[n]],
                                 !.replaced = @ \/ name \in DOMAIN loggers.loggers,
                                 !.returned = @ \cup {<<name, l>>}]
    /\ UNCHANGED loggersFrame

NextLoggers ==
    \/ \E t \in Threads, name \in LoggerNames : GetLoggerRLock(t, name)
    \/ \E t \in Threads : GetLoggerFirstCheck(t)
    \/ \E t \in Threads : GetLoggerLock(t)
    \/ \E t \in Threads : GetLoggerSecondCheck(t)

SpecLoggers == Init /\ [][NextLoggers]_vars

\* ------------------------------------------------------------------ dependency graphs

\* the edges name -> dependency of the registered components
Edges(comps) == UNION {{<<n, d>> : d \in Range(comps[n].deps)} : n \in DOMAIN comps}

RECURSIVE TransitiveClosure(_)
TransitiveClosure(R) ==
    LET step == R \cup {<<p[1][1], p[2][2]>> : p \in {q \in R \X R : q[1][2] = q[2][1]}}
    IN IF step = R THEN R ELSE TransitiveClosure(step)

OnCycle(comps, n) == <<n, n>> \in TransitiveClosure(Edges(comps))

Acyclic(comps) == \A n \in Names : ~OnCycle(comps, n)

DepsRegistered(comps) == \A n \in DOMAIN comps : Range(comps[n].deps) \subseteq DOMAIN comps

NoDuplicates(s) == \A i, j \in 1..Len(s) : s[i] = s[j] => i = j

\* every dependency of a component in order stands strictly before it
DepsFirst(comps, order) ==
    \A i \in 1..Len(order) :
        order[i] \in DOMAIN comps =>
            \A d \in Range(comps[order[i]].deps) :
                \E j \in 1..(i - 1) : order[j] = d

\* ------------------------------------------------------------------ claims

\* C1: on an acyclic graph whose dependencies are all registered,
\* topologicalSort returns no error and an order that holds every registered
\* name exactly once, every dependency strictly before its dependent.
C1_SortIsTopological ==
    (Acyclic(components) /\ DepsRegistered(components)) =>
        \A r \in sorts :
            /\ r.err = NoErr
            /\ Range(r.order) = DOMAIN components
            /\ NoDuplicates(r.order)
            /\ DepsFirst(components, r.order)

\* a sort of c -> b -> a has returned a, b, c
C1_Witness ==
    /\ DOMAIN components = {"a", "b", "c"}
    /\ components["c"].deps = <<"b">>
    /\ components["b"].deps = <<"a">>
    /\ components["a"].deps = <<>>
    /\ [order |-> <<"a", "b", "c">>, err |-> NoErr] \in sorts

\* C2: the result of topologicalSort is the same for every order in which the
\* map is ranged over: all sorts of one registration set return one result.
C2_SortIsDeterministic == Cardinality(sorts) <= 1

\* a[c], b, c sorted: c, a, b, the depth-first post-order from the roots a, b, c
C2_Witness ==
    /\ DOMAIN components = {"a", "b", "c"}
    /\ components["a"].deps = <<"c">>
    /\ components["b"].deps = <<>>
    /\ components["c"].deps = <<>>
    /\ sorts = {[order |-> <<"c", "a", "b">>, err |-> NoErr]}

\* position of name in initOrder; initOrder holds no name twice
Position(name) == IndexOf(initOrder, name)

\* C3: when the dependency graph has a cycle, Initialize returns a
\* circular-dependency error that names a node on a cycle, and invokes no Init.
C3_CycleFailsBeforeAnyInit ==
    (last.op = "Initialize" /\ ~Acyclic(components)) =>
        /\ last.err.kind = "cycle"
        /\ OnCycle(components, last.err.subject)
        /\ last.inits = <<>>

\* Initialize has failed on a -> b -> a with c registered and free of the cycle
C3_Witness ==
    /\ last.op = "Initialize"
    /\ DOMAIN components = {"a", "b", "c"}
    /\ components["a"].deps = <<"b">>
    /\ components["b"].deps = <<"a">>
    /\ components["c"].deps = <<>>
    /\ last.err.kind = "cycle"

\* C4 as claimed: when a registered component depends on a name that is not
\* registered (the graph being acyclic), Initialize returns an
\* unknown-dependency error and invokes no Init.
C4_MissingDependencyFailsBeforeAnyInit ==
    (last.op = "Initialize" /\ Acyclic(components) /\ ~DepsRegistered(components)) =>
        /\ last.err.kind = "unknown"
        /\ last.inits = <<>>

\* C5: on an acyclic graph whose dependencies are all registered, Initialize
\* invokes the Init bodies in the computed order, one per name not yet
\* initialized, stopping only at an Init that fails; each is invoked after
\* every dependency of it has been initialized.
C5_InitInComputedOrder ==
    (last.op = "Initialize" /\ Acyclic(components) /\ DepsRegistered(components)) =>
        LET todo == SelectSeq(initOrder, LAMBDA n : n \notin last.before)
        IN /\ IsPrefix(last.inits, todo)
           /\ last.err = NoErr => last.inits = todo
           /\ last.err # NoErr => last.bad = {last.inits[Len(last.inits)]}
           /\ \A i \in 1..Len(last.inits) :
                \A d \in Range(components[last.inits[i]].deps) :
                    \/ d \in last.before
                    \/ \E j \in 1..(i - 1) : last.inits[j] = d /\ d \notin last.bad

\* c -> b -> a, registered in some order, have been initialized a, b, c
C5_Witness ==
    /\ last.op = "Initialize"
    /\ last.err = NoErr
    /\ DOMAIN components = {"a", "b", "c"}
    /\ components["c"].deps = <<"b">>
    /\ components["b"].deps = <<"a">>
    /\ components["a"].deps = <<>>
    /\ last.inits = <<"a", "b", "c">>

\* the shutdown-capable names of initOrder, last first
TeardownOrder == SelectSeq(Reverse(initOrder), LAMBDA n : isShutdowner(components, n))

\* C6: when an Init returns an error, Initialize returns an error of the
\* initializing phase that names that component; the failing Init is the last
\* one invoked, nothing later in the order is invoked, the failing component is
\* not marked initialized, and those initialized before it in the walk, like
\* those initialized before the call, are marked.
C6_InitFailureAborts ==
    (last.op = "Initialize" /\ last.bad # {}) =>
        /\ last.err.kind = "init"
        /\ last.err.phase = "initializing"
        /\ last.bad = {last.err.name}
        /\ last.inits # <<>>
        /\ last.inits[Len(last.inits)] = last.err.name
        /\ \A i \in 1..Len(last.inits) : Position(last.inits[i]) <= Position(last.err.name)
        /\ last.err.name \notin initialized
        /\ initialized = last.before \cup (Range(last.inits) \ {last.err.name})

\* of a, b, c without dependencies, a has been initialized and b has failed
C6_Witness ==
    /\ last.op = "Initialize"
    /\ initOrder = <<"a", "b", "c">>
    /\ last.inits = <<"a", "b">>
    /\ last.bad = {"b"}
    /\ initialized = {"a"}

\* C7: after an Initialize that returned nil, with no Register since, Shutdown
\* invokes the Shutdown of the shutdown-capable components in the reverse of
\* initOrder, every dependent before its dependencies, up to one that fails;
\* a component without Shutdown is passed over and is no error.
C7_ShutdownInReverseOrder ==
    (last.op = "Shutdown" /\ fresh) =>
        /\ IsPrefix(last.shuts, TeardownOrder)
        /\ last.err.kind # "shutdown" => last.shuts = TeardownOrder
        /\ \A i, j \in 1..Len(last.shuts) :
              last.shuts[j] \in Range(components[last.shuts[i]].deps) => i < j
        /\ last.err.kind = "shutdown" => isShutdowner(components, last.err.name)

\* c -> b -> a initialized, b without Shutdown: c then a have been shut down
C7_Witness ==
    /\ last.op = "Shutdown"
    /\ fresh
    /\ initOrder = <<"a", "b", "c">>
    /\ components["c"].deps = <<"b">>
    /\ components["b"].deps = <<"a">>
    /\ ~components["b"].shutdowner
    /\ last.shuts = <<"c", "a">>
    /\ last.err = NoErr

\* C8: when a Shutdown of a component returns an error, Shutdown returns an
\* error of the shutting-down phase that names it; the failing Shutdown is the
\* last one invoked, no component before it in initOrder is shut down, and no
\* hook is run.
C8_ShutdownFailureAborts ==
    (last.op = "Shutdown" /\ last.bad \cap Names # {}) =>
        /\ last.err.kind = "shutdown"
        /\ last.err.phase = "shutting down"
        /\ last.bad = {last.err.name}
        /\ last.shuts # <<>>
        /\ last.shuts[Len(last.shuts)] = last.err.name
        /\ \A i \in 1..Len(last.shuts) : Position(last.shuts[i]) >= Position(last.err.name)
        /\ last.hooks = <<>>

\* b -> a initialized, a hook registered, and the Shutdown of b has failed
C8_Witness ==
    /\ last.op = "Shutdown"
    /\ fresh
    /\ initOrder = <<"a", "b">>
    /\ components["a"].shutdowner
    /\ components["b"].shutdowner
    /\ shutdownHooks # <<>>
    /\ last.shuts = <<"b">>
    /\ last.err.name = "b"

\* C9: the hooks are run only after every shutdown-capable component of
\* initOrder has been shut down without error, in the order of their
\* registration, up to the first hook that fails; Shutdown returns nil only
\* when all components and all hooks have been run and none has failed.
C9_HooksAfterWalkInOrder ==
    last.op = "Shutdown" =>
        /\ last.hooks # <<>> => (last.shuts = TeardownOrder /\ last.bad \cap Names = {})
        /\ IsPrefix(last.hooks, hookLog)
        /\ last.bad \cap HookFuncs # {} =>
              /\ last.err.kind = "hook"
              /\ last.bad = {last.hooks[Len(last.hooks)]}
              /\ last.err.subject = last.hooks[Len(last.hooks)]
        /\ last.err = NoErr <=>
              (last.bad = {} /\ last.shuts = TeardownOrder /\ last.hooks = hookLog)

\* a initialized, hooks h2 then h1 registered: a shut down, h2 run, h1 failed
C9_Witness ==
    /\ last.op = "Shutdown"
    /\ hookLog = <<"h2", "h1">>
    /\ last.shuts = <<"a">>
    /\ last.hooks = <<"h2", "h1">>
    /\ last.bad = {"h1"}

\* C10: no Init is invoked for a name whose Init has returned nil before, and
\* an Initialize that finds every registered component initialized invokes none.
C10_InitAtMostOnce ==
    /\ reinvoked = {}
    /\ last.op = "Initialize" => Range(last.inits) \cap last.before = {}
    /\ (last.op = "Initialize" /\ DOMAIN components \subseteq last.before
            /\ DepsRegistered(components)) => last.inits = <<>>

\* a second Initialize after one that initialized b -> a has invoked nothing
C10_Witness ==
    /\ last.op = "Initialize"
    /\ nOps = 4
    /\ DOMAIN components = {"a", "b"}
    /\ components["b"].deps = <<"a">>
    /\ last.before = {"a", "b"}
    /\ succeeded = {"a", "b"}
    /\ last.inits = <<>>
    /\ last.err = NoErr

\* C14 as claimed: whenever initOrder is non-empty it lists every key of
\* components exactly once, every dependency strictly before its dependent.
C14_InitOrderIsPermutationOfComponents ==
    initOrder # <<>> =>
        /\ Range(initOrder) = DOMAIN components
        /\ NoDuplicates(initOrder)
        /\ DepsFirst(components, initOrder)

\* C15 as claimed: once initOrder has been set, no operation changes it.
C15_InitOrderIsMemoized == [][initOrder # <<>> => initOrder' = initOrder]_vars

\* C17 as claimed: every error returned by Initialize or Shutdown carries the
\* phase (initializing or shutting down) and the name of the offending source.
C17_ErrorsNameSourceAndPhase ==
    (last.op \in {"Initialize", "Shutdown"} /\ last.err # NoErr) =>
        /\ last.err.phase \in {"initializing", "shutting down"}
        /\ last.err.name # ""

\* the names of initOrder whose registered component has a Shutdown, last first
ShutdownCapableReversed ==
    SelectSeq(Reverse(initOrder),
              LAMBDA n : n \in DOMAIN components /\ components[n].shutdowner)

\* C19: whatever was initialized, Shutdown invokes the Shutdown of the
\* shutdown-capable names of initOrder in reverse, all of them unless one
\* fails; with an empty initOrder it invokes none and runs only the hooks.
C19_ShutdownWalksWholeOrder ==
    last.op = "Shutdown" =>
        /\ IsPrefix(last.shuts, ShutdownCapableReversed)
        /\ last.err.kind # "shutdown" => last.shuts = ShutdownCapableReversed
        /\ initOrder = <<>> =>
              /\ last.shuts = <<>>
              /\ IsPrefix(last.hooks, shutdownHooks)
              /\ last.err.kind # "hook" => last.hooks = shutdownHooks

\* Initialize failed at b of a, b, c; Shutdown has then shut down c, b and a
C19_Witness ==
    /\ last.op = "Shutdown"
    /\ initOrder = <<"a", "b", "c">>
    /\ initialized = {"a"}
    /\ succeeded = {"a"}
    /\ last.shuts = <<"c", "b", "a">>
    /\ last.err = NoErr

\* initOne without its loop over the dependencies
linearInitOne(comps, name, fails, st) ==
    IF name \in st.initialized THEN st
    ELSE IF name \notin DOMAIN comps THEN [st EXCEPT !.err = UnknownErr(name)]
    ELSE LET ran == invokeInit(st, name, fails)
         IN IF ran.err # NoErr THEN ran ELSE [ran EXCEPT !.initialized = @ \cup {name}]

\* the loop of Initialize over order, calling linearInitOne
RECURSIVE linearWalk(_, _, _, _)
linearWalk(comps, order, fails, st) ==
    IF order = <<>> THEN st
    ELSE LET next == linearInitOne(comps, Head(order), fails, st)
         IN IF next.err # NoErr
            THEN [next EXCEPT !.err = wrap("initializing", Head(order), next.err)]
            ELSE linearWalk(comps, Tail(order), fails, next)

\* C20: an Initialize whose sort succeeded invokes the same Init bodies in the
\* same sequence, leaves the same initialized set and returns the same error
\* as the walk over initOrder that never recurses into dependencies.
C20_RecursionIsRedundant ==
    (last.op = "Initialize" /\ last.err.kind # "cycle") =>
        LET linear == linearWalk(components, initOrder, last.bad,
                                 WalkStart(last.before, {}, {}))
        IN /\ last.inits = linear.inits
           /\ initialized = linear.initialized
           /\ last.err = linear.err

\* c -> b -> a with a initialized before: Initialize has invoked b, and c failed
C20_Witness ==
    /\ last.op = "Initialize"
    /\ DOMAIN components = {"a", "b", "c"}
    /\ components["c"].deps = <<"b">>
    /\ components["b"].deps = <<"a">>
    /\ last.before = {"a"}
    /\ last.inits = <<"b", "c">>
    /\ last.bad = {"c"}

\* C12: the map of the latest CheckHealth has one result for each name that
\* was registered when it was called, holding what that name's checker
\* returned and a time not before the call began, whatever lifecycle
\* operation the call came after.
C12_CheckHealthPollsEveryChecker ==
    health.after # "" =>
        /\ DOMAIN health.results = DOMAIN health.polled
        /\ \A n \in DOMAIN health.polled :
              /\ health.results[n].Status = health.polled[n].status
              /\ health.results[n].Error = health.polled[n].error
              /\ health.results[n].Time >= health.began
              /\ health.results[n].Time <= now

\* after Initialize and Shutdown of a, at time 1, a second CheckHealth has
\* polled a (now unhealthy) and b
C12_Witness ==
    /\ health.after = "Shutdown"
    /\ initialized = {"a"}
    /\ health.began = 1
    /\ DOMAIN health.results = {"a", "b"}
    /\ health.results["a"] = HealthResult(HealthUnhealthy, TRUE, 1)
    /\ health.results["b"] = HealthResult(HealthHealthy, FALSE, 1)

\* the Shutdown bodies a Shutdown invokes when those of failed return an error
ShutdownsUpTo(failed) ==
    LET all == ShutdownCapableReversed
        stops == {i \in 1..Len(all) : all[i] \in failed}
    IN IF stops = {} THEN all
       ELSE SubSeq(all, 1, CHOOSE i \in stops : \A j \in stops : i <= j)

\* C18: a step that changes the checkers or the health results leaves
\* components, initialized, initOrder and shutdownHooks as they were; and what
\* Initialize and Shutdown invoke and return is fixed by the registry and by
\* which bodies fail, with no part for the checkers or their reports.
C18_HealthIsObservational ==
    /\ [][(checkers' # checkers \/ health' # health) => UNCHANGED registryVars]_vars
    /\ [](last.op = "Initialize" =>
            LET linear == linearWalk(components, initOrder, last.bad,
                                     WalkStart(last.before, {}, {}))
            IN /\ last.inits = linear.inits
               /\ last.err = linear.err
               /\ initialized = linear.initialized)
    /\ [](last.op = "Shutdown" =>
            /\ last.shuts = ShutdownsUpTo(last.bad)
            /\ last.err = NoErr <=> last.bad = {})

\* a has been initialized and shut down while its checker reported unhealthy
C18_Witness ==
    /\ last.op = "Shutdown"
    /\ last.shuts = <<"a">>
    /\ last.err = NoErr
    /\ "a" \in DOMAIN health.results
    /\ health.results["a"].Status = HealthUnhealthy
    /\ health.after = "Initialize"

\* the goroutines that hold the lock in Register(item) for name, the map not
\* yet written
Registering(name) ==
    {t \in Threads : /\ threads[t].pc = "body"
                     /\ threads[t].op = "Register"
                     /\ threads[t].item.name = name}

\* C11: whatever the interleaving of the Register calls, components holds for
\* every name, unless a Register for it holds the lock at this moment, the
\* component of the Register call for that name that took the lock last: no
\* registration is lost, no other entry is touched, and at most one goroutine
\* is inside a registry function.
C11_RegisterIsAtomic ==
    /\ \A n \in DOMAIN components \cup DOMAIN lastLocked :
          Registering(n) = {} =>
              /\ n \in DOMAIN components
              /\ n \in DOMAIN lastLocked
              /\ components[n] = lastLocked[n]
    /\ Cardinality({t \in Threads : threads[t].pc \in {"body", "walk", "init", "resume"}})
          <= 1

\* both goroutines have called Register for "cache", g1 taking the lock last;
\* g2 then waits for the lock of a further Register
C11_Witness ==
    /\ threads["g1"] = IdleAfter(1, NoErr)
    /\ threads["g2"].calls = 2
    /\ threads["g2"].pc = "lock"
    /\ threads["g2"].item = stubLogger
    /\ "cache" \in DOMAIN components
    /\ components["cache"] = plainCache
    /\ lastLocked["cache"] = plainCache
    /\ components["logger"] = loggerComponent

\* the registry holds components of this repository only
RepoComponentsOnly ==
    \A n \in DOMAIN components :
        components[n] \in {configComponent, loggerComponent, mysqlComponent,
                           networkComponent}

\* the goroutines inside an Init body that wait for registry.mu, which they
\* hold themselves since their Initialize locked it
SelfBlocked ==
    {t \in Threads : threads[t].nested /\ threads[t].pc = "lock" /\ mu = t}

\* C13 as claimed: with the components of this repository registered, no
\* goroutine running Initialize waits for the registry lock it holds itself.
C13_InitializeNeverBlocksOnRepoComponents == RepoComponentsOnly => SelfBlocked = {}

\* C16: a registry call made from inside an Init body never gets the lock: the
\* goroutine waits for the mutex its own Initialize holds, and the component
\* it would register is not in components.
C16_ReentrantCallNeverCompletes ==
    /\ nestedDone = {}
    /\ \A t \in Threads : threads[t].nested => t \in SelfBlocked
    /\ "late" \notin DOMAIN components

\* the Init of cacheComponent, first in the order, waits in
\* Register(lateComponent); g2 waits in a Register of its own
C16_Witness ==
    /\ threads["g1"].pc = "lock"
    /\ threads["g1"].nested
    /\ threads["g1"].op = "Register"
    /\ threads["g1"].item = lateComponent
    /\ threads["g1"].cur = "cache"
    /\ mu = "g1"
    /\ initialized = {}
    /\ threads["g2"].pc = "lock"
    /\ threads["g2"].op = "Register"

\* C21: every name whose Init has ever returned nil is in initialized, whatever
\* operations followed (no operation removes a name, so IsInitialized stays
\* true after Shutdown), only such names are in it, and each is a key of
\* components.
C21_InitializedOnlyGrows ==
    /\ succeeded \subseteq initialized
    /\ initialized \subseteq succeeded
    /\ initialized \subseteq DOMAIN components

\* a and b were initialized by two calls of Initialize and then shut down: both
\* are still in initialized
C21_Witness ==
    /\ last.op = "Shutdown"
    /\ last.shuts = <<"b", "a">>
    /\ last.err = NoErr
    /\ nOps = 5
    /\ initialized = {"a", "b"}

\* C22: a call of Initialize that returns the cycle error leaves components,
\* initialized, initOrder and shutdownHooks as they were before the call.
C22_CycleErrorLeavesRegistryUnchanged ==
    [][(nOps' # nOps /\ last'.op = "Initialize" /\ last'.err.kind = "cycle")
          => UNCHANGED registryVars]_vars

\* a was initialized; then b was registered depending on itself and a second
\* Initialize has failed with the cycle error, the order of the first kept
C22_Witness ==
    /\ last.op = "Initialize"
    /\ last.err.kind = "cycle"
    /\ initOrder = <<"a">>
    /\ initialized = {"a"}
    /\ DOMAIN components = {"a", "b"}

C24_StopReturnsAndHealthFollowsChannel ==
    /\ (network.stopper = "wait") ~> (network.stopper = "done")
    /\ [](network.stopper = "done" => (network.monitor = "exited" /\ network.wg = 0))
    /\ [](\A r \in network.reports :
             \/ r.status = HealthHealthy /\ ~r.closed
             \/ r.status = HealthUnhealthy /\ r.closed)

\* the monitor has made a check, Stop has returned after the monitor exited,
\* and HealthCheck was called both before and after the close
C24_Witness ==
    /\ network.stopper = "done"
    /\ network.stops = 1
    /\ network.monitor = "exited"
    /\ network.checks >= 1
    /\ network.reports = {[closed |-> FALSE, status |-> HealthHealthy],
                          [closed |-> TRUE, status |-> HealthUnhealthy]}

\* C25 as claimed: a GetMetrics called when no IncrCounter is under way
\* reports, for every name, the number of IncrCounter calls for it that have
\* returned.
C25_NoIncrementLost ==
    (metrics.report.taken /\ metrics.report.quiet) =>
        metrics.report.values = metrics.report.done

\* C26: GetLogger makes at most one Logger per name. All the calls for one
\* name return the same Logger, the map never has an entry replaced, and
\* there are as many Loggers made as names in the map.
C26_OneLoggerPerName ==
    /\ ~loggers.replaced
    /\ loggers.made = Cardinality(DOMAIN loggers.loggers)
    /\ \A p, q \in loggers.returned : p[1] = q[1] => p[2] = q[2]
    /\ \A p \in loggers.returned :
           p[1] \in DOMAIN loggers.loggers /\ loggers.loggers[p[1]] = p[2]

\* two concurrent calls for one name both found no Logger under the read
\* lock, the later one found it under the write lock, and both have returned
C26_Witness ==
    /\ \A t \in Threads : /\ loggers.callers[t].pc = "idle"
                          /\ loggers.callers[t].calls = 1
                          /\ loggers.callers[t].name = "network"
    /\ loggers.rechecked
    /\ <<"network", 1>> \in loggers.returned

====
